---- MODULE Spec2Model ----
(***************************************************************************)
(* TubeFetch job lifecycle manager (src/app.py): DownloadManager with its  *)
(* admission gate, the per-job executor thread, the progress hook, the     *)
(* cleanup (sweeper) thread, and the /api/download/start and               *)
(* /api/download/file request handlers.                                    *)
(*                                                                         *)
(* Threads interleave at the boundaries of the `with self.lock` regions    *)
(* and of the filesystem calls.  A job's scratch directory is named by the *)
(* job id (mkdtemp embeds the id in the prefix), so temp_dir and file_path *)
(* are either None or the id of the job that owns the directory.           *)
(***************************************************************************)
EXTENDS Integers, Sequences, FiniteSets, TLC

\* ---------------------------------------------------------------- bounds
MaxJobs == 2
MaxClients == 2
MaxRequests == 1
MaxTicks == 2
MaxBytes == 1

\* ------------------------------------------------------ program constants
FILE_RETENTION_MINUTES == 10

None == 0
JobIds == 1..MaxJobs
Clients == 1..MaxClients
Requests == 1..MaxRequests

\* the clock advances in steps of more than half the retention time, so a
\* job outlives the retention threshold after two advances
ClockStep == (FILE_RETENTION_MINUTES \div 2) + 1
MaxTime == MaxTicks * ClockStep

VARIABLES
    jobs,            \* self.jobs: job id -> job record (a dict)
    active_job_id,   \* self.active_job_id
    lock,            \* self.lock: None, or the client inside create_job
    next_uuid,       \* ids uuid.uuid4() has handed out so far
    now,             \* datetime.now(), in minutes
    fs,              \* per job id: state of its scratch directory
    log,             \* logging.error records of failed directory deletions
    cpc,             \* per client: position in start_download_job, or its response
    epc,             \* per job id: position of its _process_download thread
    spc,             \* position of the _cleanup_loop thread
    expired_jobs,    \* _cleanup_loop's local list, what is left of it
    rpc,             \* per file request: position in download_file
    rjob,            \* per file request: the job it serves
    ropen            \* per file request: send_file opened the file

storeVars == <<jobs, active_job_id>>
sweepVars == <<spc, expired_jobs>>
reqVars == <<rpc, rjob, ropen>>

vars == <<jobs, active_job_id, lock, next_uuid, now, fs, log, cpc, epc, spc, expired_jobs, rpc, rjob, ropen>>

\* ------------------------------------------------------------- job store
ActiveStatuses == {"queued", "downloading", "merging"}

NewJob(t) ==
    [status |-> "queued", progress |-> 0, created_at |-> t,
     file_path |-> None, temp_dir |-> None]

\* dict.update on the stored record; no-op if the id is absent
update_job(js, job_id, kwargs) ==
    IF job_id \in DOMAIN js
    THEN [js EXCEPT ![job_id] =
            [f \in DOMAIN js[job_id] |->
                IF f \in DOMAIN kwargs THEN kwargs[f] ELSE js[job_id][f]]]
    ELSE js

\* mutant: the entry is never deleted
del_job_never(js, job_id) == js

\* del self.jobs[job_id], if present
del_job(js, job_id) == [k \in (DOMAIN js) \ {job_id} |-> js[k]]

\* mutant: the lock excludes nobody
CanAcquireAlways == TRUE

\* `with self.lock`: the lock is free
CanAcquire == lock = None

\* mutant: the admission check overlooks a job that is still queued
IsBusyDownloadingOnly ==
    /\ active_job_id # None
    /\ active_job_id \in DOMAIN jobs
    /\ jobs[active_job_id].status = "downloading"

\* the admission check of create_job: the active job is still running
IsBusy ==
    /\ active_job_id # None
    /\ active_job_id \in DOMAIN jobs
    /\ jobs[active_job_id].status \in ActiveStatuses

\* mutant: the slot is never released
clear_active_never(a, job_id) == a

\* mutant: the slot is released whoever holds it
clear_active_always(a, job_id) == None

\* the slot after `if self.active_job_id == job_id: self.active_job_id = None`
clear_active_if_matches(a, job_id) == IF a = job_id THEN None ELSE a

\* os.path.exists(temp_dir)
DirExists(j) == fs[j] \in {"empty", "full"}

\* the output file exists and has a size
FileOk(j) == fs[j] = "full"

\* shutil.rmtree(d) of a directory in state f: the directory is gone, or
\* the call raises and the directory stays (with or without the output file)
RmtreeOutcomes(f) == <<[ok |-> TRUE, fs |-> "gone"],
                       [ok |-> FALSE, fs |-> f],
                       [ok |-> FALSE, fs |-> "empty"]>>

Init ==
    /\ jobs = << >>
    /\ active_job_id = None
    /\ lock = None
    /\ next_uuid = 0
    /\ now = 0
    /\ fs = [j \in JobIds |-> "none"]
    /\ log = {}
    /\ cpc = [c \in Clients |-> "idle"]
    /\ epc = [j \in JobIds |-> "none"]
    /\ spc = "sleep"
    /\ expired_jobs = << >>
    /\ rpc = [r \in Requests |-> "idle"]
    /\ rjob = [r \in Requests |-> None]
    /\ ropen = [r \in Requests |-> FALSE]

\* time passes
Tick ==
    /\ now + ClockStep <= MaxTime
    /\ now' = now + ClockStep
    /\ UNCHANGED <<storeVars, lock, next_uuid, fs, log, cpc, epc,
                   sweepVars, reqVars>>

\* ------------------------------------------ POST /api/download/start
\* (a request that carries a url; one without is answered 400 before the
\* manager is called)
\* mutant: the stale-slot reset of create_job runs before the admission
\* check answers Busy
CreateJobCheckHealFirst(c) ==
    /\ cpc[c] = "idle"
    /\ CanAcquire
    /\ IF IsBusy
       THEN /\ cpc' = [cpc EXCEPT ![c] = "r429"]
            /\ active_job_id' = None
            /\ UNCHANGED lock
       ELSE /\ next_uuid < MaxJobs
            /\ cpc' = [cpc EXCEPT ![c] = "insert"]
            /\ active_job_id' = None
            /\ lock' = c
    /\ UNCHANGED <<jobs, next_uuid, now, fs, log, epc, sweepVars, reqVars>>

\* create_job, up to the admission check: Busy (429), or go on to the
\* insert with the lock held and a stale active id healed
CreateJobCheck(c) ==
    /\ cpc[c] = "idle"
    /\ CanAcquire
    /\ IF IsBusy
       THEN /\ cpc' = [cpc EXCEPT ![c] = "r429"]
            /\ UNCHANGED <<active_job_id, lock>>
       ELSE /\ next_uuid < MaxJobs
            /\ cpc' = [cpc EXCEPT ![c] = "insert"]
            /\ active_job_id' = None
            /\ lock' = c
    /\ UNCHANGED <<jobs, next_uuid, now, fs, log, epc, sweepVars, reqVars>>

\* create_job, the insert; then start_download spawns the executor thread
\* and the handler answers with the job id
CreateJobInsert(c) ==
    /\ cpc[c] = "insert"
    /\ next_uuid < MaxJobs
    /\ LET job_id == next_uuid + 1 IN
        /\ next_uuid' = job_id
        /\ jobs' = [k \in (DOMAIN jobs) \cup {job_id} |->
                      IF k = job_id THEN NewJob(now) ELSE jobs[k]]
        /\ active_job_id' = job_id
        /\ epc' = [epc EXCEPT ![job_id] = "start"]
    /\ lock' = None
    /\ cpc' = [cpc EXCEPT ![c] = "r200"]
    /\ UNCHANGED <<now, fs, log, sweepVars, reqVars>>

\* the response has reached the client, which may send its next request
StartResponded(c) ==
    /\ cpc[c] \in {"r429", "r200"}
    /\ cpc' = [cpc EXCEPT ![c] = "idle"]
    /\ UNCHANGED <<storeVars, lock, next_uuid, now, fs, log, epc,
                   sweepVars, reqVars>>

\* ------------------------------------------------ _process_download
\* job = self.get_job(job_id); if not job: return.  Then mkdtemp: the
\* directory is created, or the call raises and temp_dir stays None
ProcessStart(j) ==
    /\ epc[j] = "start"
    /\ CanAcquire
    /\ IF j \notin DOMAIN jobs
       THEN /\ epc' = [epc EXCEPT ![j] = "returned"]
            /\ UNCHANGED fs
       ELSE \/ /\ fs' = [fs EXCEPT ![j] = "empty"]
               /\ epc' = [epc EXCEPT ![j] = "set_downloading"]
            \/ /\ epc' = [epc EXCEPT ![j] = "except"]
               /\ UNCHANGED fs
    /\ UNCHANGED <<storeVars, lock, next_uuid, now, log, cpc,
                   sweepVars, reqVars>>

\* update_job(job_id, status='downloading', temp_dir=temp_dir, ...)
ProcessSetDownloading(j) ==
    /\ epc[j] = "set_downloading"
    /\ CanAcquire
    /\ jobs' = update_job(jobs, j, [status |-> "downloading", temp_dir |-> j])
    /\ epc' = [epc EXCEPT ![j] = "fetch"]
    /\ UNCHANGED <<active_job_id, lock, next_uuid, now, fs, log, cpc,
                   sweepVars, reqVars>>

\* the events yt-dlp hands to the progress hook
ProgressEvents ==
    {d \in [status : {"downloading", "finished"},
            total_bytes : 0..MaxBytes,
            total_bytes_estimate : 0..MaxBytes,
            downloaded_bytes : 0..MaxBytes] :
        d.total_bytes = 0 \/ d.total_bytes_estimate = 0}

\* total = d.get('total_bytes') or d.get('total_bytes_estimate', 0)
TotalOf(d) ==
    IF d.total_bytes # 0 THEN d.total_bytes ELSE d.total_bytes_estimate

\* percent = (downloaded / total) * 100, in whole percents
PercentOf(d) == (d.downloaded_bytes * 100) \div TotalOf(d)

\* the fields _progress_hook passes to update_job; none if the event
\* changes nothing
HookUpdate(d) ==
    IF d.status = "downloading"
    THEN IF TotalOf(d) > 0 THEN [progress |-> PercentOf(d)] ELSE << >>
    ELSE [progress |-> 99]

\* _progress_hook(job_id, d), called by yt-dlp during extract_info; the
\* byte count of an event does not exceed a known total
ProgressHook(j, d) ==
    /\ epc[j] = "fetch"
    /\ CanAcquire
    /\ d.downloaded_bytes <= TotalOf(d) \/ TotalOf(d) = 0
    /\ jobs' = update_job(jobs, j, HookUpdate(d))
    /\ UNCHANGED <<active_job_id, lock, next_uuid, now, fs, log, cpc,
                   epc, sweepVars, reqVars>>

\* the check before a job is marked completed: the output file given the
\* directory state f passes
\* `not os.path.exists(filename) or os.path.getsize(filename) == 0`
Verified(f) == f = "full"

\* ydl.extract_info(url, download=True) ends: it raises, or it returns
\* having written the output file (out = "full") or none (out = "empty")
\* into the directory if that is still there; then the output is verified
FetchReturn(j, out) ==
    /\ epc[j] = "fetch"
    /\ LET f == IF DirExists(j) /\ out = "full" THEN "full" ELSE fs[j] IN
        /\ fs' = [fs EXCEPT ![j] = f]
        /\ epc' = [epc EXCEPT ![j] =
                     IF out # "raise" /\ Verified(f)
                     THEN "complete" ELSE "except"]
    /\ UNCHANGED <<storeVars, lock, next_uuid, now, log, cpc,
                   sweepVars, reqVars>>

\* mutant: an exception after the job was marked completed reaches the
\* except block
ProcessCompleteThenRaise(j) ==
    /\ epc[j] = "complete"
    /\ CanAcquire
    /\ jobs' = update_job(jobs, j,
                 [status |-> "completed", progress |-> 100, file_path |-> j])
    /\ epc' = [epc EXCEPT ![j] = "except"]
    /\ UNCHANGED <<active_job_id, lock, next_uuid, now, fs, log, cpc,
                   sweepVars, reqVars>>

\* update_job(job_id, status='completed', progress=100, file_path=...)
ProcessComplete(j) ==
    /\ epc[j] = "complete"
    /\ CanAcquire
    /\ jobs' = update_job(jobs, j,
                 [status |-> "completed", progress |-> 100, file_path |-> j])
    /\ epc' = [epc EXCEPT ![j] = "finally"]
    /\ UNCHANGED <<active_job_id, lock, next_uuid, now, fs, log, cpc,
                   sweepVars, reqVars>>

\* except: update_job(job_id, status='error', ...)
ProcessMarkError(j) ==
    /\ epc[j] = "except"
    /\ CanAcquire
    /\ jobs' = update_job(jobs, j, [status |-> "error"])
    /\ epc' = [epc EXCEPT ![j] = "fail_cleanup"]
    /\ UNCHANGED <<active_job_id, lock, next_uuid, now, fs, log, cpc,
                   sweepVars, reqVars>>

\* mutant: the failure path leaves the directory to the sweeper
ProcessFailCleanupNoRmtree(j) ==
    /\ epc[j] = "fail_cleanup"
    /\ CanAcquire
    /\ jobs' = update_job(jobs, j, [temp_dir |-> None, file_path |-> None])
    /\ epc' = [epc EXCEPT ![j] = "finally"]
    /\ UNCHANGED <<active_job_id, lock, next_uuid, now, fs, log, cpc,
                   sweepVars, reqVars>>

\* except: if temp_dir and os.path.exists(temp_dir): rmtree, an error is
\* logged and swallowed; then update_job(job_id, temp_dir=None,
\* file_path=None)
ProcessFailCleanup(j) ==
    /\ epc[j] = "fail_cleanup"
    /\ CanAcquire
    /\ IF DirExists(j)
       THEN \E i \in DOMAIN RmtreeOutcomes(fs[j]) :
            LET o == RmtreeOutcomes(fs[j])[i] IN
              /\ fs' = [fs EXCEPT ![j] = o.fs]
              /\ log' = IF o.ok THEN log ELSE log \cup {<<"failed_job", j>>}
       ELSE UNCHANGED <<fs, log>>
    /\ jobs' = update_job(jobs, j, [temp_dir |-> None, file_path |-> None])
    /\ epc' = [epc EXCEPT ![j] = "finally"]
    /\ UNCHANGED <<active_job_id, lock, next_uuid, now, cpc,
                   sweepVars, reqVars>>

\* finally: release the active slot if it is still this job's
ProcessFinally(j) ==
    /\ epc[j] = "finally"
    /\ CanAcquire
    /\ active_job_id' = clear_active_if_matches(active_job_id, j)
    /\ epc' = [epc EXCEPT ![j] = "done"]
    /\ UNCHANGED <<jobs, lock, next_uuid, now, fs, log, cpc,
                   sweepVars, reqVars>>

\* ------------------------------------------------- force_cleanup_job
\* job = self.get_job(job_id); rmtree of its temp_dir if the job is there,
\* has a temp_dir and the directory exists; an error is logged and swallowed
ForceRmtree(j) ==
    /\ CanAcquire
    /\ IF j \in DOMAIN jobs /\ jobs[j].temp_dir # None
          /\ DirExists(jobs[j].temp_dir)
       THEN \E i \in DOMAIN RmtreeOutcomes(fs[jobs[j].temp_dir]) :
            LET o == RmtreeOutcomes(fs[jobs[j].temp_dir])[i] IN
              /\ fs' = [fs EXCEPT ![jobs[j].temp_dir] = o.fs]
              /\ log' = IF o.ok THEN log ELSE log \cup {<<"cleanup_job", j>>}
       ELSE UNCHANGED <<fs, log>>

\* the store after the locked block of force_cleanup_job(job_id): the slot
\* released if it is this job's, the entry deleted if it is there
force_cleanup_store(js, a, job_id) ==
    [jobs |-> del_job(js, job_id),
     active_job_id |-> clear_active_if_matches(a, job_id)]

\* with self.lock: release the slot if it is this job's, delete the entry
ForceDelete(j) ==
    /\ CanAcquire
    /\ jobs' = force_cleanup_store(jobs, active_job_id, j).jobs
    /\ active_job_id' = force_cleanup_store(jobs, active_job_id, j).active_job_id

\* ------------------------------------------------------ _cleanup_loop
\* age > timedelta(minutes=FILE_RETENTION_MINUTES)
Expired(job, t) == t - job.created_at > FILE_RETENTION_MINUTES

RECURSIVE InOrder(_)
\* the ids of S in the order the dict holds them (insertion order)
InOrder(S) ==
    IF S = {} THEN << >>
    ELSE LET m == CHOOSE x \in S : \A y \in S : x <= y
         IN <<m>> \o InOrder(S \ {m})

\* after the sleep: collect the expired job ids under the lock
CleanupScan ==
    /\ spc = "sleep"
    /\ CanAcquire
    /\ expired_jobs' = InOrder({j \in DOMAIN jobs : Expired(jobs[j], now)})
    /\ spc' = IF expired_jobs' = << >> THEN "sleep" ELSE "rmtree"
    /\ UNCHANGED <<storeVars, lock, next_uuid, now, fs, log, cpc,
                   epc, reqVars>>

\* force_cleanup_job(job_id) of the next expired job: the directory
CleanupRmtree ==
    /\ spc = "rmtree"
    /\ ForceRmtree(Head(expired_jobs))
    /\ spc' = "delete"
    /\ UNCHANGED <<storeVars, lock, next_uuid, now, cpc, epc,
                   expired_jobs, reqVars>>

\* force_cleanup_job(job_id) of the next expired job: the entry
CleanupDelete ==
    /\ spc = "delete"
    /\ ForceDelete(Head(expired_jobs))
    /\ expired_jobs' = Tail(expired_jobs)
    /\ spc' = IF expired_jobs' = << >> THEN "sleep" ELSE "rmtree"
    /\ UNCHANGED <<lock, next_uuid, now, fs, log, cpc, epc, reqVars>>

\* -------------------------------------- GET /api/download/file/<job_id>
\* mutant: the readiness check looks only for the job
IsReadyAnyStatus(j) == j \in DOMAIN jobs

\* the readiness check: 404 unless the job is there, completed, with a file
IsReady(j) ==
    /\ j \in DOMAIN jobs
    /\ jobs[j].status = "completed"
    /\ jobs[j].file_path # None

\* download_file(job_id): job = download_manager.get_job(job_id) and the
\* readiness check
DownloadCheck(r, j) ==
    /\ rpc[r] = "idle"
    /\ CanAcquire
    /\ rjob' = [rjob EXCEPT ![r] = j]
    /\ rpc' = [rpc EXCEPT ![r] = IF IsReady(j) THEN "send_file" ELSE "r404"]
    /\ UNCHANGED <<storeVars, lock, next_uuid, now, fs, log, cpc,
                   epc, sweepVars, ropen>>

\* send_file(job['file_path'], ...) opens the file, or raises (500)
SendFile(r) ==
    /\ rpc[r] = "send_file"
    /\ ropen' = [ropen EXCEPT ![r] = FileOk(rjob[r])]
    /\ rpc' = [rpc EXCEPT ![r] = "after_request"]
    /\ UNCHANGED <<storeVars, lock, next_uuid, now, fs, log, cpc,
                   epc, sweepVars, rjob>>

\* cleanup_after_request, which Flask calls once the view has returned its
\* response and before the response body goes out: rmtree of the job's
\* temp_dir if it exists; an error skips force_cleanup_job and is logged
CleanupAfterRequest(r) ==
    /\ rpc[r] = "after_request"
    /\ IF DirExists(rjob[r])
       THEN \E i \in DOMAIN RmtreeOutcomes(fs[rjob[r]]) :
            LET o == RmtreeOutcomes(fs[rjob[r]])[i] IN
              /\ fs' = [fs EXCEPT ![rjob[r]] = o.fs]
              /\ log' = IF o.ok THEN log ELSE log \cup {<<"response", rjob[r]>>}
              /\ rpc' = [rpc EXCEPT ![r] =
                           IF o.ok THEN "force_rmtree" ELSE "transmit"]
       ELSE /\ rpc' = [rpc EXCEPT ![r] = "force_rmtree"]
            /\ UNCHANGED <<fs, log>>
    /\ UNCHANGED <<storeVars, lock, next_uuid, now, cpc, epc,
                   sweepVars, rjob, ropen>>

\* cleanup_after_request: force_cleanup_job(job_id), the directory
RequestForceRmtree(r) ==
    /\ rpc[r] = "force_rmtree"
    /\ ForceRmtree(rjob[r])
    /\ rpc' = [rpc EXCEPT ![r] = "force_delete"]
    /\ UNCHANGED <<storeVars, lock, next_uuid, now, cpc, epc,
                   sweepVars, rjob, ropen>>

\* cleanup_after_request: force_cleanup_job(job_id), the entry
RequestForceDelete(r) ==
    /\ rpc[r] = "force_delete"
    /\ ForceDelete(rjob[r])
    /\ rpc' = [rpc EXCEPT ![r] = "transmit"]
    /\ UNCHANGED <<lock, next_uuid, now, fs, log, cpc, epc,
                   sweepVars, rjob, ropen>>

\* the server sends the response: the file's bytes (200), or the 500 of a
\* send_file that raised
Transmit(r) ==
    /\ rpc[r] = "transmit"
    /\ rpc' = [rpc EXCEPT ![r] = IF ropen[r] THEN "r200" ELSE "r500"]
    /\ ropen' = [ropen EXCEPT ![r] = FALSE]
    /\ UNCHANGED <<storeVars, lock, next_uuid, now, fs, log, cpc,
                   epc, sweepVars, rjob>>

\* the response has reached the client
FileResponded(r) ==
    /\ rpc[r] \in {"r404", "r500", "r200"}
    /\ rpc' = [rpc EXCEPT ![r] = "idle"]
    /\ rjob' = [rjob EXCEPT ![r] = None]
    /\ UNCHANGED <<storeVars, lock, next_uuid, now, fs, log, cpc,
                   epc, sweepVars, ropen>>

\* --------------------------------------------------------------- system
Next ==
    \/ Tick
    \/ \E c \in Clients : CreateJobCheck(c)
    \/ \E c \in Clients : CreateJobInsert(c)
    \/ \E c \in Clients : StartResponded(c)
    \/ \E j \in JobIds : ProcessStart(j)
    \/ \E j \in JobIds : ProcessSetDownloading(j)
    \/ \E j \in JobIds : \E d \in ProgressEvents : ProgressHook(j, d)
    \/ \E j \in JobIds : \E out \in {"raise", "full", "empty"} : FetchReturn(j, out)
    \/ \E j \in JobIds : ProcessComplete(j)
    \/ \E j \in JobIds : ProcessMarkError(j)
    \/ \E j \in JobIds : ProcessFailCleanup(j)
    \/ \E j \in JobIds : ProcessFinally(j)
    \/ CleanupScan
    \/ CleanupRmtree
    \/ CleanupDelete
    \/ \E r \in Requests : \E j \in JobIds : DownloadCheck(r, j)
    \/ \E r \in Requests : SendFile(r)
    \/ \E r \in Requests : CleanupAfterRequest(r)
    \/ \E r \in Requests : RequestForceRmtree(r)
    \/ \E r \in Requests : RequestForceDelete(r)
    \/ \E r \in Requests : Transmit(r)
    \/ \E r \in Requests : FileResponded(r)

Spec == Init /\ [][Next]_vars

\* the threads keep running: the cleanup thread goes on, a client inside
\* create_job leaves it, an executor and a file request run to their end
\* (the fetch returns, one way or another).  The lock is held for one step
\* of create_job at a time, so a thread waiting for it gets it.  That
\* clients send requests or that time passes is not assumed.
ExecutorStep(j) ==
    \/ ProcessStart(j)
    \/ ProcessSetDownloading(j)
    \/ \E out \in {"raise", "full", "empty"} : FetchReturn(j, out)
    \/ ProcessComplete(j)
    \/ ProcessMarkError(j)
    \/ ProcessFailCleanup(j)
    \/ ProcessFinally(j)

RequestStep(r) ==
    \/ SendFile(r)
    \/ CleanupAfterRequest(r)
    \/ RequestForceRmtree(r)
    \/ RequestForceDelete(r)
    \/ Transmit(r)

FairSpec ==
    /\ Spec
    /\ WF_vars(CleanupScan)
    /\ WF_vars(CleanupRmtree)
    /\ WF_vars(CleanupDelete)
    /\ \A c \in Clients : WF_vars(CreateJobInsert(c))
    /\ \A j \in JobIds : WF_vars(ExecutorStep(j))
    /\ \A r \in Requests : WF_vars(RequestStep(r))

\* ---------------------------------------------------------- properties
\* the job records whose status is Queued or Downloading
NonTerminal(js) ==
    {j \in DOMAIN js : js[j].status \in {"queued", "downloading"}}

\* an executor thread between its start and the end of its exit action
Running(j) == epc[j] \notin {"none", "returned", "done"}

\* an executor thread that has left the except block
LeftFailure(j) == epc[j] \in {"finally", "done"}

\* C1: in every reachable state at most one job record of the store has
\* status Queued or Downloading
C1_SingleFlight == Cardinality(NonTerminal(jobs)) <= 1

\* C1 witness: a job is downloading while the store also holds an earlier,
\* finished job and a client has been turned away at the admission gate
C1_Witness ==
    \E j, k \in DOMAIN jobs :
        /\ jobs[j].status = "downloading"
        /\ jobs[k].status \in {"completed", "error"}
        /\ \E c \in Clients : cpc[c] = "r429"

\* C2: admission is atomic: never two clients inside create_job at once,
\* a call returns a job id only when no job of the store is Queued or
\* Downloading, and a call made while one is returns Busy (429)
C2_AtomicAdmission ==
    [][/\ Cardinality({c \in Clients : cpc'[c] = "insert"}) <= 1
       /\ next_uuid' # next_uuid => NonTerminal(jobs) = {}
       /\ \A c \in Clients :
            (cpc[c] = "idle" /\ cpc'[c] # "idle" /\ NonTerminal(jobs) # {})
                => cpc'[c] = "r429"]_vars

\* C2 witness: of two calls in flight together one has been answered with
\* a job id and the other with Busy, the admitted job being under way
C2_Witness ==
    \E c, d \in Clients :
        /\ cpc[c] = "r200"
        /\ cpc[d] = "r429"
        /\ NonTerminal(jobs) # {}

\* C3: at most one executor task is running at any time
C3_OneExecutor == Cardinality({j \in JobIds : Running(j)}) <= 1

\* C4: an executor that has ended leaves the active slot not naming its
\* job, and a submit is answered Busy only while some job of the store is
\* Queued or Downloading, so after a job is Completed or Failed the next
\* submit is admitted
C4_SlotReleased ==
    /\ [](\A j \in JobIds :
            epc[j] \in {"done", "returned"} => active_job_id # j)
    /\ [][\A c \in Clients :
            (cpc[c] = "idle" /\ cpc'[c] = "r429") => NonTerminal(jobs) # {}]_vars

\* C4 witness: a job has ended Completed or Failed, its executor is over,
\* and a later submit has been admitted and holds the slot
C4_Witness ==
    \E j, k \in DOMAIN jobs :
        /\ j < k
        /\ epc[j] = "done"
        /\ jobs[j].status \in {"completed", "error"}
        /\ active_job_id = k
        /\ \E c \in Clients : cpc[c] = "r200"

\* C5: no create_job succeeds while an executor of an earlier job has not
\* yet performed its exit action
C5_ExitBeforeAdmission ==
    [][next_uuid' # next_uuid =>
         \A j \in JobIds : epc[j] \in {"none", "returned", "done"}]_vars

\* C6: a job of the store with status Completed has progress 100 and a
\* result path that refers to an existing, non-empty file
C6_CompletedHasFile ==
    \A j \in DOMAIN jobs :
        jobs[j].status = "completed" =>
            /\ jobs[j].progress = 100
            /\ jobs[j].file_path # None
            /\ FileOk(jobs[j].file_path)

\* C7 as stated: a Failed job whose executor has left the failure
\* transition has no workDir on the filesystem
C7_FailedDirGone ==
    \A j \in DOMAIN jobs :
        (jobs[j].status = "error" /\ LeftFailure(j)) => ~DirExists(j)

\* C7 amended: a Failed job whose executor has left the failure transition
\* has no workDir on the filesystem, unless the executor's deletion of it
\* raised and was logged
C7_FailedDirGoneUnlessLogged ==
    \A j \in DOMAIN jobs :
        (jobs[j].status = "error" /\ LeftFailure(j)
            /\ <<"failed_job", j>> \notin log) => ~DirExists(j)

\* C7 witness: a fetch failed after the directory was made, and the
\* executor has deleted it and left the transition
C7_Witness ==
    \E j \in DOMAIN jobs :
        /\ jobs[j].status = "error"
        /\ LeftFailure(j)
        /\ fs[j] = "gone"
        /\ <<"failed_job", j>> \notin log

\* C8: once a file request has sent the file and run its cleanup, the job
\* is absent from the store and its workDir is gone
C8_DeliveredThenGone ==
    \A r \in Requests :
        rpc[r] = "r200" =>
            rjob[r] \notin DOMAIN jobs /\ ~DirExists(rjob[r])

\* a file request between its readiness check and the end of transmission
InFlight(r) ==
    rpc[r] \in {"send_file", "after_request", "force_rmtree", "force_delete",
                "transmit"}

\* C9: from the readiness check of a file request until its bytes have
\* been sent, the result file exists
C9_FileThereWhileSent ==
    \A r \in Requests : InFlight(r) => FileOk(rjob[r])

\* C10: a job older than the retention threshold is eventually removed
\* from the store, and its workDir eventually deleted, whatever its status,
\* if the sweeper keeps ticking
C10_SweeperReclaims ==
    \A j \in JobIds :
        (j \in DOMAIN jobs /\ Expired(jobs[j], now))
            ~> (j \notin DOMAIN jobs /\ ~DirExists(j))

\* C11: removing a job twice leaves the store as removing it once does: the
\* job is absent, the active slot is released if it named the job, every
\* other job and a slot naming another job are as before; and when both the
\* cleanup thread and the cleanup after a delivery remove the same job, the
\* one that comes second finds it absent and changes nothing in the store
C11_RemoveTwiceAsOnce ==
    /\ [](\A j \in JobIds :
            LET once == force_cleanup_store(jobs, active_job_id, j)
                twice == force_cleanup_store(once.jobs, once.active_job_id, j)
            IN /\ twice = once
               /\ j \notin DOMAIN once.jobs
               /\ once.active_job_id # j
               /\ active_job_id # j => once.active_job_id = active_job_id
               /\ DOMAIN once.jobs = (DOMAIN jobs) \ {j}
               /\ \A k \in DOMAIN once.jobs : once.jobs[k] = jobs[k])
    /\ [][/\ (spc = "delete" /\ spc' # "delete"
              /\ Head(expired_jobs) \notin DOMAIN jobs)
                 => UNCHANGED <<jobs, active_job_id>>
          /\ \A r \in Requests :
               (rpc[r] = "force_delete" /\ rpc'[r] # "force_delete"
                /\ rjob[r] \notin DOMAIN jobs)
                 => UNCHANGED <<jobs, active_job_id>>]_vars

\* the cleanup thread is about to delete an entry that the cleanup after a
\* delivery has already deleted, while another job holds the slot
C11_Witness ==
    /\ spc = "delete"
    /\ Head(expired_jobs) \notin DOMAIN jobs
    /\ \E r \in Requests :
         rjob[r] = Head(expired_jobs) /\ rpc[r] \in {"transmit", "r200", "r500"}
    /\ DOMAIN jobs # {}

C13_BusyNoEffect ==
    [][\A c \in Clients :
         /\ (cpc[c] = "idle" /\ cpc'[c] = "r429") =>
              UNCHANGED <<jobs, active_job_id, next_uuid, epc, lock>>
         /\ (cpc[c] = "r429" /\ cpc'[c] # "r429") =>
              UNCHANGED <<jobs, active_job_id, next_uuid, epc, lock>>]_vars

\* a client has been answered Busy while the active job is downloading
C13_Witness ==
    \E c \in Clients :
        /\ cpc[c] = "r429"
        /\ active_job_id \in DOMAIN jobs
        /\ jobs[active_job_id].status = "downloading"

\* the status of a record that a step keeps changes only along `allowed`
StatusStepsWithin(allowed) ==
    \A j \in (DOMAIN jobs) \cap (DOMAIN jobs') :
        jobs'[j].status # jobs[j].status =>
            <<jobs[j].status, jobs'[j].status>> \in allowed

\* C14 as stated: the status of a stored job changes only from Queued to
\* Downloading and from Downloading to Completed or Failed, so a Completed
\* or Failed job keeps its status for as long as its record exists
C14_TerminalKept ==
    [][StatusStepsWithin({<<"queued", "downloading">>,
                          <<"downloading", "completed">>,
                          <<"downloading", "error">>})]_vars

\* C14, amended: the status of a stored job changes only from Queued to
\* Downloading, from Downloading to Completed or Failed, and from Queued
\* to Failed (the workDir could not be created); a Completed or Failed job
\* keeps its status for as long as its record exists
C14_TerminalKeptOrQueuedFails ==
    [][StatusStepsWithin({<<"queued", "downloading">>,
                          <<"downloading", "completed">>,
                          <<"downloading", "error">>,
                          <<"queued", "error">>})]_vars

\* a job that failed before it had a workDir is still Failed after its
\* executor has left, and a job that completed is still Completed after a
\* later job has run
C14_Witness ==
    /\ \E j \in DOMAIN jobs :
         jobs[j].status = "error" /\ fs[j] = "none" /\ epc[j] = "done"
    /\ \E j \in DOMAIN jobs :
         jobs[j].status = "completed" /\ epc[j] = "done"

\* C15: while a stored job is Downloading, no step lowers its progress
C15_ProgressNeverDrops ==
    [][\A j \in (DOMAIN jobs) \cap (DOMAIN jobs') :
         (jobs[j].status = "downloading" /\ jobs'[j].status = "downloading")
            => jobs'[j].progress >= jobs[j].progress]_vars

\* C16: a stored job has progress 100 only if its status is Completed
C16_FullOnlyWhenCompleted ==
    \A j \in DOMAIN jobs :
        jobs[j].progress = 100 => jobs[j].status = "completed"

\* C17: a step of the cleanup thread neither removes the record of a job
\* that is Queued or Downloading nor touches its directory
C17_SweeperSparesRunning ==
    [][(\/ spc = "rmtree" /\ spc' = "delete"
        \/ spc = "delete" /\ spc' # "delete")
          => \A j \in NonTerminal(jobs) :
                j \in DOMAIN jobs' /\ fs'[j] = fs[j]]_vars

\* somebody may still delete the directory of job j: its executor has not
\* finished, its record in the store names the directory, or a file request
\* that read the record has its cleanup ahead
DeletionPending(j) ==
    \/ Running(j)
    \/ j \in DOMAIN jobs /\ jobs[j].temp_dir = j
    \/ \E r \in Requests :
         rjob[r] = j /\ rpc[r] \in {"send_file", "after_request"}

\* C18: no workDir is left behind: as long as no deletion has raised, a
\* directory that exists is one that its executor, a stored record or a
\* file request will still have deleted
C18_NoOrphanDir ==
    log = {} => \A j \in JobIds : DirExists(j) => DeletionPending(j)

\* C19: a directory deletion that raised is logged and does not keep the
\* store update that goes with it from happening: after the cleanup of a
\* delivery the job is removed, after force_cleanup_job the job is removed,
\* and after the executor's failure path the job is Failed and, once the
\* executor has left, the active slot is not this job's
C19_DeletionFailureSwallowed ==
    \A j \in JobIds :
        /\ <<"response", j>> \in log =>
              \/ j \notin DOMAIN jobs
              \/ \E r \in Requests :
                   rjob[r] = j /\ rpc[r] \in {"force_rmtree", "force_delete"}
        /\ <<"cleanup_job", j>> \in log =>
              \/ j \notin DOMAIN jobs
              \/ spc = "delete" /\ Head(expired_jobs) = j
              \/ \E r \in Requests : rjob[r] = j /\ rpc[r] = "force_delete"
        /\ <<"failed_job", j>> \in log =>
              /\ j \in DOMAIN jobs => jobs[j].status = "error"
              /\ epc[j] = "done" => active_job_id # j

\* C20: the exit action of an executor unsets the active slot if the slot
\* names the executor's own job and leaves it as it is otherwise, and so
\* does the removal of a job by force_cleanup_job: the slot of a newer
\* active job is never cleared by an executor that finishes late
C20_OnlyOwnSlotCleared ==
    [][/\ \A j \in JobIds :
            (epc[j] = "finally" /\ epc'[j] = "done") =>
                active_job_id' = (IF active_job_id = j THEN None
                                  ELSE active_job_id)
       /\ (spc = "delete" /\ spc' # "delete") =>
            active_job_id' = (IF active_job_id = Head(expired_jobs) THEN None
                              ELSE active_job_id)
       /\ \A r \in Requests :
            (rpc[r] = "force_delete" /\ rpc'[r] # "force_delete") =>
                active_job_id' = (IF active_job_id = rjob[r] THEN None
                                  ELSE active_job_id)]_vars

\* the executor of a job that was swept has finished while a newer job,
\* admitted before it finished and not yet started, holds the slot
C20_Witness ==
    \E j \in JobIds : \E k \in DOMAIN jobs :
        /\ epc[j] = "done"
        /\ j \notin DOMAIN jobs
        /\ k # j
        /\ active_job_id = k
        /\ jobs[k].status = "queued"
        /\ epc[k] = "start"
        /\ \A c \in Clients : cpc[c] = "idle"
====
